---- MODULE Spec2Model ----
(***************************************************************************)
(* Orbit view of DebrisSimulation3 (src/src/components/DebrisSimulation3   *)
(* .tsx): the position track (updatePositions / calculatePosition), the    *)
(* camera refs (rotation, zoom), the per-frame draw routine with its hover *)
(* test, and the pointer / wheel / click handlers.                         *)
(*                                                                         *)
(* Numbers are fixed point:                                                *)
(*   zoom, rotation, sines, cosines, eccentricity : thousandths            *)
(*   angles                                       : milliradians           *)
(*   meanMotion                                   : microradians / second  *)
(*   distances in space                           : kilometres             *)
(*   screen coordinates                           : whole pixels           *)
(*   drawn radius (size)                          : thousandths of a pixel *)
(*   time                                         : seconds since mount    *)
(***************************************************************************)
EXTENDS Integers, Sequences, FiniteSets, TLC

(* ---------------------------------------------------------------- bounds *)

\* Latest value of the clock (seconds since startTime) the model explores.
MaxClock == 10

\* Largest rotation (thousandths, either axis) the model lets a drag accumulate.
MaxRotation == 1000

(* ------------------------------------------------------ program constants *)

Milli == 1000

\* zoom.current = Math.max(0.1, Math.min(zoom.current, 10.0)), in thousandths
ZoomMin == 100
ZoomMax == 10000
\* useRef(1)
ZoomInitial == 1000
\* zoom.current -= e.deltaY * 0.001 : one unit of deltaY is one thousandth
WheelStep == 1
\* rotation.current.x += deltaX * 0.005 : five thousandths per pixel
Sensitivity == 5
\* Math.cos(rotation.current.x * 0.01) : a thousandth of rotation is 1/100 mrad
RotationToMrad == 100
\* const scale = 0.02 * zoom.current : px = km * zoomMilli / 50000
KmPerPixelMilli == 50000
\* if (z2d < -1000) return
DepthCull == -1000
\* for (let x = 0; x <= canvas.width; x += 50 * zoom.current)
GridSpacing == 50
\* size = sat.orbitType === 'LEO' ? 6 * zoom.current : 4 * zoom.current
SizeLEO == 6
SizeOther == 4
\* if (distance < size + 5), thousandths of a pixel
HoverSlack == 5000
\* if (distance < screenPos.size + 5), thousandths of a pixel
ClickSlack == 5000
\* Math.sqrt(x*x + y*y + z*z) - 6371
EarthRadiusKm == 6371
\* riskFactor above which a record is filled red
HighRisk == 60
\* context.shadowBlur of the selected record
SelectedBlur == 15
\* if (timeOffsetSeconds < 10 && elements.currentPosition)
FastPathSeconds == 10
\* for (let i = 0; i < 8; i++)
NewtonIterations == 8
\* setInterval(updatePositions, 1000)
TickSeconds == 1

\* canvas.width / canvas.height taken from the container (updateCanvasSize)
CanvasWidth == 800
CanvasHeight == 600
\* canvas.getBoundingClientRect(): where the canvas sits in the viewport
RectLeft == 200
RectTop == 100

(* ------------------------------------------------------------ arithmetic *)

Abs(a) == IF a < 0 THEN -a ELSE a

Max(a, b) == IF a > b THEN a ELSE b

Min(a, b) == IF a < b THEN a ELSE b

\* a / b rounded to the nearest integer (b > 0); stands for the float quotient
RDiv(a, b) == (2 * a + b) \div (2 * b)

RECURSIVE SqrtBits(_, _, _)
\* largest r with r * r <= n, found bit by bit from 2^15 down
SqrtBits(n, r, bit) ==
    IF bit = 0 THEN r
    ELSE IF (r + bit) * (r + bit) <= n
         THEN SqrtBits(n, r + bit, bit \div 2)
         ELSE SqrtBits(n, r, bit \div 2)

\* Math.sqrt on a non-negative integer, rounded down
Sqrt(n) == SqrtBits(n, 0, 32768)

\* pi and 2 pi in milliradians
PiMrad == 3142
TwoPiMrad == 6283
HalfPiMrad == 1571

\* x - x^3/6 + x^5/120 - x^7/5040 = x (1 - x2/6 (1 - x2/20 (1 - x2/42))),
\* with x2 = x^2, all in thousandths
SinSeries(x, x2) ==
    RDiv(x * (Milli - RDiv(x2 * (Milli - RDiv(x2 * (Milli - RDiv(x2, 42)), 20 * Milli)),
                           6 * Milli)),
         Milli)

\* sine of an angle in [-pi/2, pi/2] (mrad), in thousandths: Taylor to x^7
SinCore(x) == Max(-Milli, Min(Milli, SinSeries(x, RDiv(x * x, Milli))))

\* an angle in (-pi, pi] folded into [-pi/2, pi/2] with the same sine
FoldQuarter(h) ==
    IF h > HalfPiMrad THEN PiMrad - h
    ELSE IF h < -HalfPiMrad THEN (-PiMrad) - h
    ELSE h

\* an angle in [0, 2 pi) moved to (-pi, pi]
FoldHalf(r) == IF r > PiMrad THEN r - TwoPiMrad ELSE r

\* Math.sin of an angle in mrad, in thousandths
\* (the folded angle is bound once, then used)
Sin(a) == CHOOSE s \in {SinCore(h) : h \in {FoldQuarter(FoldHalf(a % TwoPiMrad))}} : TRUE

\* 1 - x^2/2 + x^4/24 - x^6/720 = 1 - x2/2 (1 - x2/12 (1 - x2/30)), thousandths
CosSeries(x2) ==
    Milli - RDiv(x2 * (Milli - RDiv(x2 * (Milli - RDiv(x2, 30)), 12 * Milli)), 2 * Milli)

\* cosine of an angle in [0, pi/2] (mrad), in thousandths: Taylor to x^6
CosCore(x) == Max(0, Min(Milli, CosSeries(RDiv(x * x, Milli))))

\* cosine of an angle in [0, pi] (mrad)
CosHalf(h) == IF h > HalfPiMrad THEN - CosCore(PiMrad - h) ELSE CosCore(h)

\* Math.cos of an angle in mrad, in thousandths
\* (the folded angle is bound once, then used)
Cos(a) == CHOOSE c \in {CosHalf(h) : h \in {Abs(FoldHalf(a % TwoPiMrad))}} : TRUE

\* atan of t / Milli for 0 <= t <= Milli, in mrad: odd polynomial of degree 9
AtanCore(t) ==
    LET t2 == RDiv(t * t, Milli)
        c4 == 85 - RDiv(21 * t2, Milli)
        c3 == 180 - RDiv(c4 * t2, Milli)
        c2 == 330 - RDiv(c3 * t2, Milli)
        c1 == Milli - RDiv(c2 * t2, Milli)
    IN  RDiv(t * c1, Milli)

\* Math.atan2(y, x) in mrad; y and x are in the same unit
Atan2(y, x) ==
    LET ay == Abs(y)
        ax == Abs(x)
        q  == IF ax = 0 /\ ay = 0 THEN 0
              ELSE IF ay <= ax THEN AtanCore(RDiv(ay * Milli, ax))
              ELSE HalfPiMrad - AtanCore(RDiv(ax * Milli, ay))
        h  == IF x < 0 THEN PiMrad - q ELSE q
    IN  IF y < 0 THEN -h ELSE h

(* ---------------------------------------------------------------- values *)

\* null / undefined
Null == "null"

\* a record of the element list that carries no currentPosition
NoPosition == [x |-> 0, y |-> 0, z |-> 0, present |-> FALSE]

Position(px, py, pz) == [x |-> px, y |-> py, z |-> pz, present |-> TRUE]

\* NaN, the result of Math.sqrt of a negative number and of arithmetic on a
\* missing (undefined) field; encoded as a number outside every range used here
NaN == -2147483647

\* a SatellitePosition that no frame has annotated: screenPosition undefined
NoScreen == [x |-> 0, y |-> 0, size |-> 0, present |-> FALSE]

(* ------------------------------------------------------------ propagator *)

RECURSIVE Newton(_, _, _, _)
\* the Newton-Raphson loop of calculatePosition: n more iterations from E
Newton(E, ecc, M, n) ==
    IF n = 0 THEN E
    ELSE LET f  == E - RDiv(ecc * Sin(E), Milli) - M
             df == Milli - RDiv(ecc * Cos(E), Milli)
         IN  Newton(E - RDiv(f * Milli, df), ecc, M, n - 1)

(* the Newton-Raphson loop once more, one iteration at a time and in units of
   2^-24 rad, fine enough to state a residual of 1e-6 *)

\* 1.0 in units of 2^-24, and its square root
Fine == 16777216
FineRoot == 4096

\* a * b / 2^24 for a, b >= 0, by halves so that no product leaves 32 bits
MulFineNat(a, b) ==
    (a \div FineRoot) * (b \div FineRoot)
      + ((a \div FineRoot) * (b % FineRoot) + (a % FineRoot) * (b \div FineRoot)
           + ((a % FineRoot) * (b % FineRoot)) \div FineRoot) \div FineRoot

\* a * b
MulFine(a, b) ==
    IF (a < 0) # (b < 0) THEN - MulFineNat(Abs(a), Abs(b))
    ELSE MulFineNat(Abs(a), Abs(b))

RECURSIVE DivDigits(_, _, _, _)
\* long division, four bits of the quotient at a time
DivDigits(r, d, n, q) ==
    IF n = 0 THEN q
    ELSE DivDigits((r * 16) % d, d, n - 1, q * 16 + (r * 16) \div d)

\* f / d for d > 0
DivFine(f, d) ==
    IF f < 0 THEN - DivDigits((- f) % d, d, 6, (- f) \div d)
    ELSE DivDigits(f % d, d, 6, f \div d)

\* pi, 2 pi and pi / 2
PiFine == 52707179
TwoPiFine == 105414357
HalfPiFine == 26353589

RECURSIVE Horner(_, _, _)
\* 1 - x2/d1 (1 - x2/d2 (1 - ... )) over the divisors ds[k], ds[k+1], ...
Horner(x2, ds, k) ==
    IF k > Len(ds) THEN Fine
    ELSE Fine - MulFine(x2, Horner(x2, ds, k + 1)) \div ds[k]

\* Math.sin and Math.cos on [-pi/2, pi/2]: Taylor series to x^13 and x^14
SinFineCore(x) == MulFine(x, Horner(MulFine(x, x), <<6, 20, 42, 72, 110, 156>>, 1))
CosFineCore(x) == Horner(MulFine(x, x), <<2, 12, 30, 56, 90, 132, 182>>, 1)

\* an angle brought into (-pi, pi]
WrapFine(x) ==
    IF (x % TwoPiFine) > PiFine THEN (x % TwoPiFine) - TwoPiFine ELSE x % TwoPiFine

\* Math.sin
SinFine(x) ==
    IF WrapFine(x) > HalfPiFine THEN SinFineCore(PiFine - WrapFine(x))
    ELSE IF WrapFine(x) < - HalfPiFine THEN SinFineCore(- PiFine - WrapFine(x))
    ELSE SinFineCore(WrapFine(x))

\* Math.cos
CosFine(x) ==
    IF WrapFine(x) > HalfPiFine THEN - CosFineCore(PiFine - WrapFine(x))
    ELSE IF WrapFine(x) < - HalfPiFine THEN - CosFineCore(- PiFine - WrapFine(x))
    ELSE CosFineCore(WrapFine(x))

\* f = eccentricAnomaly - eccentricity * Math.sin(eccentricAnomaly) - currentMeanAnomaly
KeplerResidual(E, ecc, M) == E - MulFine(ecc, SinFine(E)) - M

\* variant: the iteration without the derivative, E = M + e sin E
NewtonStepNoDerivative(E, ecc, M) == M + MulFine(ecc, SinFine(E))

\* one pass of the loop body: eccentricAnomaly = eccentricAnomaly - f / df
NewtonStep(E, ecc, M) ==
    E - DivFine(KeplerResidual(E, ecc, M), Fine - MulFine(ecc, CosFine(E)))

\* { x, y, z, altitude } with altitude = Math.sqrt(x*x + y*y + z*z) - 6371
WithAltitude(x, y, z) ==
    [x |-> x, y |-> y, z |-> z,
     altitude |-> Sqrt(x * x + y * y + z * z) - EarthRadiusKm]

\* x, y, z from the rotation matrix r11 .. r32 applied to (xOrbital, yOrbital)
Rotate(cosI, sinI, cosO, sinO, cosW, sinW, xOrbital, yOrbital) ==
    LET r11 == RDiv(cosO * cosW, Milli) - RDiv(RDiv(sinO * sinW, Milli) * cosI, Milli)
        r12 == (- RDiv(cosO * sinW, Milli)) - RDiv(RDiv(sinO * cosW, Milli) * cosI, Milli)
        r21 == RDiv(sinO * cosW, Milli) + RDiv(RDiv(cosO * sinW, Milli) * cosI, Milli)
        r22 == (- RDiv(sinO * sinW, Milli)) + RDiv(RDiv(cosO * cosW, Milli) * cosI, Milli)
        r31 == RDiv(sinW * sinI, Milli)
        r32 == RDiv(cosW * sinI, Milli)
    IN  WithAltitude(RDiv(r11 * xOrbital + r12 * yOrbital, Milli),
                     RDiv(r21 * xOrbital + r22 * yOrbital, Milli),
                     RDiv(r31 * xOrbital + r32 * yOrbital, Milli))

\* position in the orbital plane, then the transform to Earth-centred coordinates
PlaneToSpace(el, radius, trueAnomaly) ==
    Rotate(Cos(el.inclination), Sin(el.inclination),
           Cos(el.rightAscension), Sin(el.rightAscension),
           Cos(el.argumentOfPerigee), Sin(el.argumentOfPerigee),
           RDiv(radius * Cos(trueAnomaly), Milli),
           RDiv(radius * Sin(trueAnomaly), Milli))

\* 2 * Math.atan2(sqrt(1 + e) * sin(E / 2), sqrt(1 - e) * cos(E / 2))
TrueAnomaly(ecc, halfE) ==
    2 * Atan2(Sqrt((Milli + ecc) * Milli) * Sin(halfE),
              Sqrt((Milli - ecc) * Milli) * Cos(halfE))

\* true anomaly, radius and position from the eccentric anomaly
FromEccentricAnomaly(el, eccentricAnomaly) ==
    PlaneToSpace(el,
                 RDiv(el.semiMajorAxis
                        * (Milli - RDiv(el.eccentricity * Cos(eccentricAnomaly), Milli)),
                      Milli),
                 TrueAnomaly(el.eccentricity, RDiv(eccentricAnomaly, 2)))

\* Kepler's equation solved from E0 = currentMeanAnomaly
FromMeanAnomaly(el, currentMeanAnomaly) ==
    FromEccentricAnomaly(el, Newton(currentMeanAnomaly, el.eccentricity,
                                    currentMeanAnomaly, NewtonIterations))

\* { x, y, z, altitude } when the arithmetic has run into NaN
NaNPosition == [x |-> NaN, y |-> NaN, z |-> NaN, altitude |-> NaN]

\* the arithmetic of the Kepler path yields NaN: radius is NaN when semiMajorAxis
\* is missing, and Math.sqrt(1 - eccentricity) is NaN when eccentricity > 1; either
\* makes xOrbital and yOrbital NaN, hence x, y, z and altitude (nothing is thrown)
KeplerIsNaN(el) == el.semiMajorAxis = NaN \/ el.eccentricity > Milli

\* the full (Kepler) path of calculatePosition
KeplerPosition(el, timeOffsetSeconds) ==
    IF KeplerIsNaN(el) THEN NaNPosition
    ELSE FromMeanAnomaly(el, el.meanAnomaly
                               + RDiv(el.meanMotion * timeOffsetSeconds, Milli))

\* variant: the cached position is returned whenever there is one
calculatePositionAlwaysCached(el, timeOffsetSeconds) ==
    IF el.currentPosition.present
    THEN WithAltitude(el.currentPosition.x, el.currentPosition.y, el.currentPosition.z)
    ELSE KeplerPosition(el, timeOffsetSeconds)

\* calculatePosition(elements, timeOffsetSeconds)
calculatePosition(el, timeOffsetSeconds) ==
    IF timeOffsetSeconds < FastPathSeconds /\ el.currentPosition.present
    THEN WithAltitude(el.currentPosition.x, el.currentPosition.y, el.currentPosition.z)
    ELSE KeplerPosition(el, timeOffsetSeconds)

\* variant: the altitude of the record is computed from the element, not derived
\* from the returned position
RecordOfAltitudeFromAxis(el, position) ==
    [id |-> el.id,
     name |-> el.name,
     x |-> position.x,
     y |-> position.y,
     z |-> position.z,
     type |-> el.type,
     orbitType |-> el.orbitType,
     riskFactor |-> el.riskFactor,
     inclination |-> RDiv(el.inclination * 180, PiMrad),
     altitude |-> IF el.semiMajorAxis = NaN THEN NaN
                  ELSE el.semiMajorAxis - EarthRadiusKm,
     screenPosition |-> NoScreen]

\* the record updatePositions builds for one element from its position
RecordOf(el, position) ==
    [id |-> el.id,
     name |-> el.name,
     x |-> position.x,
     y |-> position.y,
     z |-> position.z,
     type |-> el.type,
     orbitType |-> el.orbitType,
     riskFactor |-> el.riskFactor,
     inclination |-> RDiv(el.inclination * 180, PiMrad),
     altitude |-> position.altitude,
     screenPosition |-> NoScreen]

\* orbitalElements.map(element => { const position = calculatePosition(...); ... })
SatelliteRecord(el, timeOffset) == RecordOf(el, calculatePosition(el, timeOffset))

\* variant: the map loses the last element of the list
MapPositionsDropsLast(elements, timeOffset) ==
    [i \in 1..(Len(elements) - 1) |-> SatelliteRecord(elements[i], timeOffset)]

\* orbitalElements.map(element => ...) at the given time offset
MapPositions(elements, timeOffset) ==
    [i \in 1..Len(elements) |-> SatelliteRecord(elements[i], timeOffset)]

(* ---------------------------------------------------------------- inputs *)

\* element records the data source can deliver (angles mrad, meanMotion urad/s)
Element(id, type, orbitType, risk, a, ecc, inc, M, n, pos) ==
    [id |-> id, name |-> id, type |-> type, orbitType |-> orbitType,
     riskFactor |-> risk, semiMajorAxis |-> a, eccentricity |-> ecc,
     inclination |-> inc, rightAscension |-> 0, argumentOfPerigee |-> 0,
     meanAnomaly |-> M, meanMotion |-> n, currentPosition |-> pos]

ElA == Element("A", "satellite", "LEO", 80, 7000, 0, 0, 0, 1100, Position(7000, 0, 0))
ElB == Element("B", "satellite", "LEO", 20, 7200, 0, 0, 0, 1000, Position(7200, 0, 0))
\* a polar orbit, on the far side of the Earth (z < 0) as the run begins
ElC == Element("C", "debris", "MEO", 50, 16553, 100, 1571, 5349, 200, NoPosition)

\* degenerate records: a hyperbolic eccentricity (1.5), with and without a
\* currentPosition, and a record whose semiMajorAxis is missing
ElHyper == Element("H", "debris", "HEO", 90, 7000, 1500, 0, 0, 1100, Position(7000, 0, 0))
ElHyperBare == Element("G", "debris", "HEO", 90, 7000, 1500, 0, 0, 1100, NoPosition)
ElNoAxis == Element("N", "debris", "LEO", 10, NaN, 0, 0, 0, 1100, NoPosition)

\* a circular orbit whose currentPosition, as delivered, lies 100 km inside the
\* circle of radius semiMajorAxis
ElDrifted == Element("D", "satellite", "LEO", 10, 7000, 0, 0, 0, 1100, Position(6900, 0, 0))

\* the lists a source that also delivers degenerate records can push
PropagateLists ==
    { <<>>, <<ElA, ElC>>, <<ElHyper>>, <<ElHyperBare, ElA>>, <<ElNoAxis>>,
      <<ElC, ElHyper, ElNoAxis>>, <<ElDrifted, ElB>> }

\* seconds between two position ticks in the propagation runs
PropagateGaps == { TickSeconds, 5 * TickSeconds }

\* the lists setOrbitalElements can receive
ElementLists == { <<>>, <<ElA, ElB>>, <<ElB, ElC>> }

\* (selectedSatellite, highlightedSatellite, filteredSatelliteId) the host can pass
PropChoices ==
    { <<Null, Null, Null>>, <<"A", "A", Null>>, <<"B", Null, "A">> }

\* e.deltaY of the wheel events explored
WheelDeltas == { -9900, 9900 }

\* seconds between two position ticks explored (a multiple of TickSeconds)
TickGaps == { 10 * TickSeconds }

Point(px, py) == [x |-> px, y |-> py]

\* pointer positions explored, relative to the canvas
CanvasPoints == { Point(540, 300), Point(544, 300), Point(-190, -90) }

\* the same positions as clientX / clientY
ClientPoints == { Point(p.x + RectLeft, p.y + RectTop) : p \in CanvasPoints }

\* the pointer is over the canvas element
OverCanvas(c) ==
    /\ c.x >= RectLeft /\ c.x < RectLeft + CanvasWidth
    /\ c.y >= RectTop  /\ c.y < RectTop + CanvasHeight

(* ----------------------------------------------------------------- state *)

VARIABLES
    orbitalElements,      \* useState<OrbitalElements[]>([])
    satellites,           \* useState<SatellitePosition[]>([]), with screenPosition
    now,                  \* Date.now() - startTime.current, in seconds
    isDragging,           \* useRef(false)
    lastMousePos,         \* useRef({ x: 0, y: 0 })
    rotation,             \* useRef({ x: 0, y: 0 }), thousandths
    zoom,                 \* useRef(1), thousandths
    hoveredSatellite,     \* useState(null): id of the hovered record, or Null
    selectedSatellite,    \* prop: id of the selected record, or Null
    highlightedSatellite, \* prop
    filteredSatelliteId,  \* prop
    pointer,              \* clientX / clientY of the pointer
    press,                \* the button gesture the browser is tracking
    selectCalls,          \* ids passed to onSelectSatellite by the last handler
    mounted,              \* the component is mounted (its listeners are registered)
    animationRef,         \* the requestAnimationFrame request held by animationRef
    interval,             \* the setInterval timer of the position effect
    lastDrawn,            \* history: ids of the records the most recent frame drew
    outstanding,          \* how many frame requests and interval timers are live,
                          \* armed by the current effects and by superseded ones
    kepler                \* the locals of the Newton-Raphson loop of one call of
                          \* calculatePosition, when it is followed pass by pass

camera == <<rotation, zoom>>
props == <<selectedSatellite, highlightedSatellite, filteredSatelliteId>>
track == <<orbitalElements, satellites, now>>
hover == <<hoveredSatellite>>
lifecycle == <<mounted, animationRef, interval>>
view == <<orbitalElements, satellites, now, isDragging, lastMousePos, rotation, zoom,
          hoveredSatellite, selectedSatellite, highlightedSatellite,
          filteredSatelliteId, pointer, press, selectCalls,
          mounted, animationRef, interval, lastDrawn, outstanding>>
vars == <<orbitalElements, satellites, now, isDragging, lastMousePos, rotation, zoom,
          hoveredSatellite, selectedSatellite, highlightedSatellite,
          filteredSatelliteId, pointer, press, selectCalls,
          mounted, animationRef, interval, lastDrawn, outstanding, kepler>>

(* --------------------------------------------------- effects and timers *)

\* variant: the cleanup of the canvas effect leaves the pending request alone
cancelAnimationFrameSkipped(o) == [o EXCEPT !.frames = @]

\* cancelAnimationFrame(animationRef.current): the ref holds the request armed
\* last, a cancel of a request that already fired does nothing
cancelAnimationFrame(o) == [o EXCEPT !.frames = Max(@ - 1, 0)]

\* the closure of the canvas effect is replaced: what it left armed is stale
supersedeCanvas(o) == [o EXCEPT !.staleFrames = @ + o.frames, !.frames = 0]

\* variant: the callback re-arms nothing
requestAnimationFrameDropped(o) == [o EXCEPT !.frames = @]

\* animationRef.current = requestAnimationFrame(draw)
requestAnimationFrame(o) == [o EXCEPT !.frames = @ + 1]

\* the browser takes the pending request off its list and calls draw
fireFrame(o) == [o EXCEPT !.frames = @ - 1]

\* a dependency of the canvas effect changed: its cleanup, then the effect again
resubscribeCanvas(o) == requestAnimationFrame(supersedeCanvas(cancelAnimationFrame(o)))

\* clearInterval(interval) in the cleanup of the position effect
clearInterval(o) == [o EXCEPT !.timers = Max(@ - 1, 0)]

\* the closure of the position effect is replaced
supersedePositions(o) == [o EXCEPT !.staleTimers = @ + o.timers, !.timers = 0]

\* const interval = setInterval(updatePositions, 1000)
setInterval(o) == [o EXCEPT !.timers = @ + 1]

\* orbitalElements changed: the cleanup of the position effect, then the effect
\* again, which returns early on an empty list
resubscribePositions(o, list) ==
    IF Len(list) = 0 THEN supersedePositions(clearInterval(o))
    ELSE setInterval(supersedePositions(clearInterval(o)))

\* the browser owes the canvas a click event (mouseup ended a press on the canvas)
ClickPending == press \in {"click", "dragClick"}

\* the canvas effect has run once (animationRef.current = requestAnimationFrame(draw))
\* and the position effect has returned early on the empty list
FirstFrameRequested == [frames |-> 1, staleFrames |-> 0, timers |-> 0, staleTimers |-> 0]

\* no call of calculatePosition is being followed: its loop has run to the end
KeplerDone == [eccentricity |-> 0, currentMeanAnomaly |-> 0, eccentricAnomaly |-> 0,
               i |-> NewtonIterations]

Init ==
    /\ orbitalElements = <<>>
    /\ satellites = <<>>
    /\ now = 0
    /\ isDragging = FALSE
    /\ lastMousePos = Point(0, 0)
    /\ rotation = Point(0, 0)
    /\ zoom = ZoomInitial
    /\ hoveredSatellite = Null
    /\ selectedSatellite = Null
    /\ highlightedSatellite = Null
    /\ filteredSatelliteId = Null
    /\ pointer \in ClientPoints
    /\ press = "none"
    /\ selectCalls = <<>>
    /\ mounted = TRUE
    /\ animationRef = "pending"
    /\ interval = "cleared"
    /\ lastDrawn = {}
    /\ outstanding = FirstFrameRequested
    /\ kepler = KeplerDone

(* ------------------------------------------------------------ projection *)

\* does sqrt(dx^2 + dy^2) < radius hold, dx and dy in pixels, radius in
\* thousandths of a pixel (the comparison is split so that it stays in 32 bits)
Within(dx, dy, radius) ==
    LET d2   == dx * dx + dy * dy
        q    == radius \div Milli
        r    == radius % Milli
        diff == d2 - q * q
    IN  IF radius <= 0 THEN FALSE
        ELSE IF diff < 0 THEN TRUE
        ELSE IF diff > 2 * q THEN FALSE
        ELSE diff * Milli * Milli < 2 * Milli * q * r + r * r

\* the projection of draw under camera (zm, rot): screen position and depth
ProjectAt(sat, zm, rot) ==
    LET centerX == CanvasWidth \div 2
        centerY == CanvasHeight \div 2
        x3d == RDiv(sat.x * zm, KmPerPixelMilli)
        y3d == RDiv(sat.y * zm, KmPerPixelMilli)
        z3d == RDiv(sat.z * zm, KmPerPixelMilli)
        cosRotX == Cos(RDiv(rot.x, RotationToMrad))
        sinRotX == Sin(RDiv(rot.x, RotationToMrad))
        cosRotY == Cos(RDiv(rot.y, RotationToMrad))
        sinRotY == Sin(RDiv(rot.y, RotationToMrad))
        z2d == RDiv(x3d * sinRotY + z3d * cosRotY, Milli)
        x2d == RDiv(x3d * cosRotY - z3d * sinRotY, Milli)
        y2d == RDiv(y3d * cosRotX, Milli) - RDiv(z2d * sinRotX, Milli)
    IN  [screenX |-> centerX + x2d, screenY |-> centerY + y2d, z2d |-> z2d]

\* the projection of draw with the camera refs as they are
Project(sat) == ProjectAt(sat, zoom, rotation)

\* variant: the filter prop is ignored and the whole snapshot is kept
InFilterIgnored(sat) == sat.id = sat.id

\* satellitesToDraw / satellitesToCheck: the filter on the snapshot
InFilter(sat) == filteredSatelliteId = Null \/ sat.id = filteredSatelliteId

\* draw reaches the arc for this record: in the draw set and not depth-culled
IsDrawn(sat) == InFilter(sat) /\ ~(Project(sat).z2d < DepthCull)

\* let size = ... ; if (isHighlighted || isFiltered) size *= 1.5
SizeOf(sat) ==
    LET base == IF sat.orbitType = "LEO" THEN SizeLEO * zoom ELSE SizeOther * zoom
    IN  IF highlightedSatellite = sat.id \/ filteredSatelliteId = sat.id
        THEN (base * 3) \div 2
        ELSE base

\* variant: any selection marks every record as the selected one
isSelectedWhenSet(sat, sel) == sel # Null

\* const isSelected = selectedSatellite && selectedSatellite.id === sat.id
isSelected(sat, sel) == sel # Null /\ sel = sat.id

\* isHighlighted || isFiltered
isAccented(sat, hl, flt) == hl = sat.id \/ flt = sat.id

\* what draw puts on the canvas for a record under the given props: fill colour,
\* arc radius and shadow blur (thousandths of a pixel), and whether it is labelled
EncodingWith(sat, sel, hl, flt) ==
    LET base == IF sat.orbitType = "LEO" THEN SizeLEO * zoom ELSE SizeOther * zoom
        size == IF isAccented(sat, hl, flt) THEN (base * 3) \div 2 ELSE base
    IN  [fillStyle  |-> IF isAccented(sat, hl, flt) THEN "#3b82f6"
                        ELSE IF sat.riskFactor > HighRisk THEN "#ef4444"
                        ELSE "#10b981",
         radius     |-> IF isSelected(sat, sel) THEN (size * 6) \div 5 ELSE size,
         shadowBlur |-> IF isSelected(sat, sel) THEN SelectedBlur ELSE 0,
         trail      |-> isAccented(sat, hl, flt),
         label      |-> isSelected(sat, sel) \/ isAccented(sat, hl, flt)]

\* the encoding draw uses with the props as they are
Encoding(sat) ==
    EncodingWith(sat, selectedSatellite, highlightedSatellite, filteredSatelliteId)

\* (sat as any).screenPosition = { x: screenX, y: screenY, size }
Annotation(sat) ==
    CHOOSE a \in {[x |-> p.screenX, y |-> p.screenY, size |-> SizeOf(sat),
                   present |-> TRUE] : p \in {Project(sat)}} : TRUE

\* variant: the hover check reads the annotation an earlier frame left on the
\* record instead of the position just computed
HoverHitStale(sat) ==
    /\ sat.screenPosition.present
    /\ Within(sat.screenPosition.x - lastMousePos.x,
              sat.screenPosition.y - lastMousePos.y,
              sat.screenPosition.size + HoverSlack)

\* the hover check of draw for one drawn record
HoverHit(sat) ==
    \E p \in {Project(sat)} :
       Within(p.screenX - lastMousePos.x, p.screenY - lastMousePos.y,
              SizeOf(sat) + HoverSlack)

RECURSIVE HoverLoopFirstWins(_, _)
\* variant: the loop keeps the first hit and ignores the later ones
HoverLoopFirstWins(i, acc) ==
    IF i > Len(satellites) THEN acc
    ELSE LET sat == satellites[i]
         IN  HoverLoopFirstWins(i + 1,
                 IF acc = Null /\ IsDrawn(sat) /\ HoverHit(sat) THEN sat.id ELSE acc)

RECURSIVE HoverLoop(_, _)
\* satellitesToDraw.forEach: every hit calls setHoveredSatellite(sat) (and, with
\* it, setMousePosition), so the state after the frame is what the last call set
HoverLoop(i, acc) ==
    IF i > Len(satellites) THEN acc
    ELSE LET sat == satellites[i]
         IN  HoverLoop(i + 1, IF IsDrawn(sat) /\ HoverHit(sat) THEN sat.id ELSE acc)

\* the click test of handleCanvasClick for one record
ClickHit(sat, x, y) ==
    /\ sat.screenPosition.present
    /\ Within(sat.screenPosition.x - x, sat.screenPosition.y - y,
              sat.screenPosition.size + ClickSlack)

RECURSIVE ClickLoopNoReturn(_, _, _)
\* variant: the loop does not return after the first hit
ClickLoopNoReturn(i, x, y) ==
    IF i > Len(satellites) THEN <<>>
    ELSE IF InFilter(satellites[i]) /\ ClickHit(satellites[i], x, y)
         THEN <<satellites[i].id>> \o ClickLoopNoReturn(i + 1, x, y)
         ELSE ClickLoopNoReturn(i + 1, x, y)

RECURSIVE ClickLoopIgnoresFilter(_, _, _)
\* variant: the loop walks the whole snapshot instead of satellitesToCheck
ClickLoopIgnoresFilter(i, x, y) ==
    IF i > Len(satellites) THEN <<>>
    ELSE IF ClickHit(satellites[i], x, y)
         THEN <<satellites[i].id>>
         ELSE ClickLoopIgnoresFilter(i + 1, x, y)

RECURSIVE ClickLoop(_, _, _)
\* for (const sat of satellitesToCheck): the ids passed to onSelectSatellite
ClickLoop(i, x, y) ==
    IF i > Len(satellites) THEN <<>>
    ELSE IF InFilter(satellites[i]) /\ ClickHit(satellites[i], x, y)
         THEN <<satellites[i].id>>
         ELSE ClickLoop(i + 1, x, y)

(* -------------------------------------------------------------- handlers *)

\* canvas 'mousedown' listener
handleMouseDown(c) ==
    /\ isDragging' = TRUE
    /\ lastMousePos' = Point(c.x, c.y)
    /\ UNCHANGED <<camera, hover, track, props>>

\* variant: the handler rotates without looking at isDragging
handleMouseMoveAlwaysRotates(c) ==
    /\ lastMousePos' = Point(c.x - RectLeft, c.y - RectTop)
    /\ rotation' = Point(rotation.x + RectLeft * Sensitivity,
                         rotation.y + RectTop * Sensitivity)
    /\ UNCHANGED <<isDragging, zoom, hover, track, props>>

\* window 'mousemove' listener; c is the event's clientX / clientY
handleMouseMove(c) ==
    LET rel == Point(c.x - RectLeft, c.y - RectTop)
        \* read after lastMousePos.current has been overwritten with rel
        deltaX == c.x - rel.x
        deltaY == c.y - rel.y
    IN  /\ lastMousePos' = rel
        /\ IF ~isDragging
           THEN rotation' = rotation
           ELSE rotation' = Point(rotation.x + deltaX * Sensitivity,
                                  rotation.y + deltaY * Sensitivity)
        /\ UNCHANGED <<isDragging, zoom, hover, track, props>>

\* variant: the handler forgets to leave the drag
handleMouseUpKeepsDragging ==
    /\ UNCHANGED <<isDragging, lastMousePos, camera, hover, track, props>>

\* window 'mouseup' listener
handleMouseUp ==
    /\ isDragging' = FALSE
    /\ UNCHANGED <<lastMousePos, camera, hover, track, props>>

\* variant: the handler does not clamp
handleWheelUnclamped(deltaY) ==
    /\ zoom' = zoom - deltaY * WheelStep
    /\ UNCHANGED <<rotation, isDragging, lastMousePos, hover, track, props>>

\* canvas 'wheel' listener
handleWheel(deltaY) ==
    /\ zoom' = Max(ZoomMin, Min(zoom - deltaY * WheelStep, ZoomMax))
    /\ UNCHANGED <<rotation, isDragging, lastMousePos, hover, track, props>>

\* canvas 'click' listener; c is the event's clientX / clientY
handleCanvasClick(c) ==
    /\ selectCalls' = ClickLoop(1, c.x - RectLeft, c.y - RectTop)
    /\ UNCHANGED <<isDragging, lastMousePos, camera, hover, track, props>>

\* variant: the frame propagates the elements again instead of reading the snapshot
drawRepropagates ==
    /\ hoveredSatellite' = HoverLoop(1, Null)
    /\ satellites' =
          [i \in 1..Len(satellites) |->
              [SatelliteRecord(orbitalElements[i], now + TickSeconds)
                  EXCEPT !.screenPosition = Annotation(satellites[i])]]
    /\ UNCHANGED <<orbitalElements, now, isDragging, lastMousePos, camera, props>>

\* one animation frame
draw ==
    \* setHoveredSatellite(null), then the loop over satellitesToDraw
    LET result == HoverLoop(1, Null)
    IN  /\ hoveredSatellite' = result
        /\ satellites' =
              [i \in 1..Len(satellites) |->
                  IF IsDrawn(satellites[i])
                  THEN [satellites[i] EXCEPT !.screenPosition = Annotation(satellites[i])]
                  ELSE satellites[i]]
        /\ UNCHANGED <<orbitalElements, now, isDragging, lastMousePos, camera, props>>

\* variant: a record already in the snapshot keeps the position of the earlier call
updatePositionsReusesSnapshot(t) ==
    /\ now' = t
    /\ satellites' =
          [i \in 1..Len(orbitalElements) |->
              IF i <= Len(satellites) /\ satellites[i].id = orbitalElements[i].id
              THEN [satellites[i] EXCEPT !.screenPosition = NoScreen]
              ELSE SatelliteRecord(orbitalElements[i], t)]
    /\ UNCHANGED <<orbitalElements, isDragging, lastMousePos, camera, hover, props>>

\* updatePositions at clock value t
updatePositions(t) ==
    /\ now' = t
    /\ satellites' = MapPositions(orbitalElements, t)
    /\ UNCHANGED <<orbitalElements, isDragging, lastMousePos, camera, hover, props>>

\* setOrbitalElements(list), then the position effect: nothing for an empty list,
\* else updatePositions at once (and setInterval)
setOrbitalElements(list) ==
    /\ orbitalElements' = list
    /\ satellites' = IF Len(list) = 0 THEN satellites ELSE MapPositions(list, now)
    \* the cleanup of the effect clears the timer, a non-empty list arms a new one
    /\ interval' = IF Len(list) = 0 THEN "cleared" ELSE "armed"
    /\ UNCHANGED <<now, isDragging, lastMousePos, camera, hover, props>>

\* variant: the drag flag lives in the effect and is lost when it re-subscribes
setPropsResetsDrag(p) ==
    /\ selectedSatellite' = p[1]
    /\ highlightedSatellite' = p[2]
    /\ filteredSatelliteId' = p[3]
    /\ isDragging' = FALSE
    /\ UNCHANGED <<lastMousePos, camera, hover, track>>

\* the host re-renders the view with other selected / highlighted / filtered props
setProps(p) ==
    /\ selectedSatellite' = p[1]
    /\ highlightedSatellite' = p[2]
    /\ filteredSatelliteId' = p[3]
    /\ UNCHANGED <<isDragging, lastMousePos, camera, hover, track>>

\* the count the status readout renders: "Satellites: ..."
StatusCount ==
    IF filteredSatelliteId # Null THEN "1 (filtered)" ELSE ToString(Len(satellites))

\* the "Highlighted: ..." line of the status readout (Null: the line is absent)
StatusHighlighted ==
    IF highlightedSatellite = Null THEN Null
    ELSE IF \E i \in 1..Len(satellites) : satellites[i].id = highlightedSatellite
         THEN satellites[CHOOSE i \in 1..Len(satellites) :
                            /\ satellites[i].id = highlightedSatellite
                            /\ \A j \in 1..(i - 1) :
                                  satellites[j].id # highlightedSatellite].name
         ELSE highlightedSatellite

(* --------------------------------------------------- events and scheduling *)

MouseDown ==
    /\ mounted
    /\ ~ClickPending
    /\ OverCanvas(pointer)
    /\ handleMouseDown(pointer)
    /\ press' = "down"
    /\ selectCalls' = <<>>
    /\ UNCHANGED <<pointer, lifecycle, lastDrawn>>
    /\ UNCHANGED outstanding
    /\ UNCHANGED kepler

MouseMove(c) ==
    /\ mounted
    /\ ~ClickPending
    /\ isDragging =>
          /\ Abs(rotation.x + RectLeft * Sensitivity) <= MaxRotation
          /\ Abs(rotation.y + RectTop * Sensitivity) <= MaxRotation
    /\ handleMouseMove(c)
    /\ pointer' = c
    /\ press' = IF press = "dragged" \/ (press = "down" /\ c # pointer)
                THEN "dragged" ELSE press
    /\ selectCalls' = <<>>
    /\ UNCHANGED <<lifecycle, lastDrawn>>
    /\ UNCHANGED outstanding
    /\ UNCHANGED kepler

\* a press that began on the canvas and ends on it makes the browser dispatch click
MouseUp ==
    /\ mounted
    /\ ~ClickPending
    /\ handleMouseUp
    /\ press' = IF press \in {"down", "dragged"} /\ OverCanvas(pointer)
                THEN (IF press = "dragged" THEN "dragClick" ELSE "click")
                ELSE "none"
    /\ selectCalls' = <<>>
    /\ UNCHANGED <<pointer, lifecycle, lastDrawn>>
    /\ UNCHANGED outstanding
    /\ UNCHANGED kepler

Wheel(deltaY) ==
    /\ mounted
    /\ ~ClickPending
    /\ OverCanvas(pointer)
    /\ handleWheel(deltaY)
    /\ selectCalls' = <<>>
    /\ UNCHANGED <<pointer, press, lifecycle, lastDrawn>>
    /\ UNCHANGED outstanding
    /\ UNCHANGED kepler

Click ==
    /\ mounted
    /\ ClickPending
    /\ handleCanvasClick(pointer)
    /\ press' = "none"
    /\ UNCHANGED <<pointer, lifecycle, lastDrawn>>
    /\ UNCHANGED outstanding
    /\ UNCHANGED kepler

\* x += 50 * zoom.current, y += 50 * zoom.current: the step of the gridline
\* loops, in thousandths of a pixel
GridStep == GridSpacing * zoom

\* for (let x = 0; x <= canvas.width; x += step) and the same over canvas.height
\* come to an end
GridlinesEnd == GridStep > 0

\* the pending animation frame request fires; draw runs to its end and re-arms it
Frame ==
    /\ animationRef = "pending"
    /\ GridlinesEnd
    /\ ~ClickPending
    /\ draw
    /\ lastDrawn' = {satellites[i].id : i \in {k \in 1..Len(satellites) :
                                                  IsDrawn(satellites[k])}}
    /\ selectCalls' = <<>>
    /\ UNCHANGED <<pointer, press, lifecycle>>
    \* the request fires, and draw ends with requestAnimationFrame(draw)
    /\ outstanding.frames > 0
    /\ outstanding' = requestAnimationFrame(fireFrame(outstanding))
    /\ UNCHANGED kepler

\* the interval armed by a non-empty element list fires
Tick(gap) ==
    /\ interval = "armed"
    /\ ~ClickPending
    /\ now + gap <= MaxClock
    /\ updatePositions(now + gap)
    /\ selectCalls' = <<>>
    /\ UNCHANGED <<pointer, press, lifecycle, lastDrawn>>
    \* setSatellites: the canvas effect re-subscribes
    /\ outstanding.timers > 0
    /\ outstanding' = resubscribeCanvas(outstanding)
    /\ UNCHANGED kepler

NewElements(list) ==
    /\ mounted
    /\ ~ClickPending
    /\ list # orbitalElements
    /\ setOrbitalElements(list)
    /\ selectCalls' = <<>>
    /\ UNCHANGED <<pointer, press, mounted, animationRef, lastDrawn>>
    \* the position effect re-subscribes, and with a new snapshot the canvas effect
    /\ outstanding' = IF Len(list) = 0 THEN resubscribePositions(outstanding, list)
                       ELSE resubscribeCanvas(resubscribePositions(outstanding, list))
    /\ UNCHANGED kepler

NewProps(p) ==
    /\ mounted
    /\ ~ClickPending
    /\ p # props
    /\ setProps(p)
    /\ selectCalls' = <<>>
    /\ UNCHANGED <<pointer, press, lifecycle, lastDrawn>>
    \* the canvas effect re-subscribes
    /\ outstanding' = resubscribeCanvas(outstanding)
    /\ UNCHANGED kepler

\* the two timers as the cleanups of an unmount see them
Timers == [animationRef |-> animationRef, interval |-> interval]

\* variant: the cleanup removes the listeners but does not cancel the frame
cleanupCanvasKeepsFrame(t) == [t EXCEPT !.animationRef = t.animationRef]

\* cleanup of the canvas effect: cancelAnimationFrame(animationRef.current)
cleanupCanvas(t) == [t EXCEPT !.animationRef = "cancelled"]

\* cleanup of the position effect: clearInterval(interval), if one was armed
cleanupPositions(t) == [t EXCEPT !.interval = "cleared"]

\* React unmounts the view and runs the cleanups of its effects in some order
Unmount(order) ==
    LET t == IF order = "canvasFirst"
             THEN cleanupPositions(cleanupCanvas(Timers))
             ELSE cleanupCanvas(cleanupPositions(Timers))
    IN  /\ mounted
        /\ ~ClickPending
        /\ mounted' = FALSE
        /\ animationRef' = t.animationRef
        /\ interval' = t.interval
        /\ selectCalls' = <<>>
        /\ UNCHANGED <<isDragging, lastMousePos, camera, hover, track, props,
                       pointer, press, lastDrawn>>
        /\ outstanding' = supersedePositions(clearInterval(
                             supersedeCanvas(cancelAnimationFrame(outstanding))))
        /\ UNCHANGED kepler

CleanupOrders == {"canvasFirst", "positionsFirst"}

Next ==
    \/ MouseDown
    \/ \E c \in ClientPoints : MouseMove(c)
    \/ MouseUp
    \/ \E d \in WheelDeltas : Wheel(d)
    \/ Click
    \/ Frame
    \/ \E g \in TickGaps : Tick(g)
    \/ \E l \in ElementLists : NewElements(l)
    \/ \E p \in PropChoices : NewProps(p)

Spec == Init /\ [][Next]_vars

\* the view with its teardown: a host that only feeds data and props, then unmounts
NextTeardown ==
    \/ Frame
    \/ \E g \in TickGaps : Tick(g)
    \/ \E l \in ElementLists : NewElements(l)
    \/ \E p \in PropChoices : NewProps(p)
    \/ \E c \in ClientPoints : MouseMove(c)
    \/ \E o \in CleanupOrders : Unmount(o)

SpecTeardown == Init /\ [][NextTeardown]_vars

\* the position loop alone, fed by a source that also delivers degenerate records
NextPropagate ==
    \/ \E l \in PropagateLists : NewElements(l)
    \/ \E g \in PropagateGaps : Tick(g)

SpecPropagate == Init /\ [][NextPropagate]_vars

\* the view left to its two loops, its data, its props and the wheel, with the
\* browser calling every pending frame callback at its next repaint
NextLive ==
    \/ Frame
    \/ \E g \in TickGaps : Tick(g)
    \/ \E l \in ElementLists : NewElements(l)
    \/ \E p \in PropChoices : NewProps(p)
    \/ \E d \in WheelDeltas : Wheel(d)

SpecLive == Init /\ [][NextLive]_vars /\ WF_vars(Frame)

\* eccentricities 0, 0.1, .. 0.9 and mean anomalies 0 .. 4 pi in steps of pi / 32
EccentricityGrid == { (k * Fine) \div 10 : k \in 0..9 }
MeanAnomalyGrid == { k * (TwoPiFine \div 64) : k \in 0..128 }

\* calculatePosition enters its loop: let eccentricAnomaly = currentMeanAnomaly
InitKepler ==
    /\ orbitalElements = <<>>
    /\ satellites = <<>>
    /\ now = 0
    /\ isDragging = FALSE
    /\ lastMousePos = Point(0, 0)
    /\ rotation = Point(0, 0)
    /\ zoom = ZoomInitial
    /\ hoveredSatellite = Null
    /\ selectedSatellite = Null
    /\ highlightedSatellite = Null
    /\ filteredSatelliteId = Null
    /\ pointer = Point(RectLeft, RectTop)
    /\ press = "none"
    /\ selectCalls = <<>>
    /\ mounted = TRUE
    /\ animationRef = "pending"
    /\ interval = "cleared"
    /\ lastDrawn = {}
    /\ outstanding = FirstFrameRequested
    /\ \E ecc \in EccentricityGrid, M \in MeanAnomalyGrid :
          kepler = [eccentricity |-> ecc, currentMeanAnomaly |-> M,
                    eccentricAnomaly |-> M, i |-> 0]

\* for (let i = 0; i < 8; i++) { ... }: one pass
NewtonPass ==
    /\ kepler.i < NewtonIterations
    /\ kepler' = [kepler EXCEPT
                     !.eccentricAnomaly = NewtonStep(kepler.eccentricAnomaly,
                                                     kepler.eccentricity,
                                                     kepler.currentMeanAnomaly),
                     !.i = @ + 1]
    /\ UNCHANGED view

NextKepler == NewtonPass

\* the solver of calculatePosition alone, over a grid of (eccentricity, mean anomaly)
SpecKepler == InitKepler /\ [][NextKepler]_vars

(* ------------------------------------------------------------ properties *)

\* the pointer position of the event relative to the canvas
CanvasX == pointer.x - RectLeft
CanvasY == pointer.y - RectTop

MaxOf(S) == CHOOSE m \in S : \A k \in S : k <= m
MinOf(S) == CHOOSE m \in S : \A k \in S : m <= k

Dist2(ax, ay, bx, by) == (ax - bx) * (ax - bx) + (ay - by) * (ay - by)

\* the annotation on record s puts (x, y) within its size + slack
AnnotationCovers(s, x, y, slack) ==
    /\ s.screenPosition.present
    /\ Within(s.screenPosition.x - x, s.screenPosition.y - y,
              s.screenPosition.size + slack)

\* the annotation on record s sits exactly at (x, y)
AnnotationAt(s, x, y) ==
    /\ s.screenPosition.present
    /\ s.screenPosition.x = x
    /\ s.screenPosition.y = y

\* a Frame step (the variables a frame leaves alone are compared first)
FrameStep ==
    /\ UNCHANGED <<orbitalElements, now, isDragging, lastMousePos, camera, props,
                   pointer, press, lifecycle>>
    /\ Frame

AnyMouseMove == \E c \in ClientPoints : MouseMove(c)
AnyWheel == \E d \in WheelDeltas : Wheel(d)

\* C1: the controller is Dragging exactly when the most recent of the
\* pointer-down / pointer-up events was a pointer-down, and Idle otherwise (Idle
\* initially); pointer-move and wheel leave the drag state as it is.
C1_DragStateMachine == isDragging = (press \in {"down", "dragged"})

\* C1 case: a drag that has seen a pointer-move and a wheel event is still a drag
C1_Witness == isDragging /\ press = "dragged" /\ zoom # ZoomInitial

\* C2: a pointer-move while Dragging changes rotation by the pointer displacement
\* since the previous pointer event of the drag, times the sensitivity (so a move
\* with zero displacement leaves rotation unchanged).
C2_RotationFollowsDisplacement ==
    [][(isDragging /\ AnyMouseMove) =>
          /\ rotation'.x = rotation.x + (pointer'.x - pointer.x) * Sensitivity
          /\ rotation'.y = rotation.y + (pointer'.y - pointer.y) * Sensitivity]_vars

\* C3: a pointer-move received while Idle leaves rotation and zoom (and every
\* other piece of view state) unchanged and only overwrites lastMousePos with the
\* canvas-relative position of the event.
C3_IdleMoveOnlyTracksPointer ==
    [][(~isDragging /\ AnyMouseMove) =>
          /\ rotation' = rotation
          /\ zoom' = zoom
          /\ isDragging' = isDragging
          /\ UNCHANGED <<hover, track, props>>
          /\ lastMousePos' = Point(pointer'.x - RectLeft, pointer'.y - RectTop)]_vars

\* C3 case: an Idle move after an earlier drag: the rotation of the drag is kept
C3_Witness ==
    /\ ~isDragging
    /\ press = "none"
    /\ rotation.x # 0
    /\ lastMousePos = Point(CanvasX, CanvasY)

\* C4: zoom starts at 1 and stays inside [0.1, 10] whatever events interleave, and
\* each wheel event sets zoom to clamp(zoom - deltaY * 0.001).
C4_ZoomClamp ==
    /\ zoom = ZoomInitial
    /\ [][/\ zoom' >= ZoomMin
          /\ zoom' <= ZoomMax
          /\ \A d \in WheelDeltas :
                Wheel(d) => zoom' = Max(ZoomMin, Min(zoom - d * WheelStep, ZoomMax))
          /\ ~AnyWheel => zoom' = zoom]_vars

\* C4 case: a wheel event during a drag ran into the upper clamp
C4_Witness == zoom = ZoomMax /\ isDragging

\* C5: for a wheel event at screen point P, what projected to P before the event
\* still projects to P (to the pixel) after it.
C5_ZoomToCursor ==
    [][AnyWheel =>
          \A i \in 1..Len(satellites) :
             LET before == ProjectAt(satellites[i], zoom, rotation)
                 after  == ProjectAt(satellites[i], zoom', rotation')
             IN  (before.screenX = CanvasX /\ before.screenY = CanvasY) =>
                    /\ Abs(after.screenX - CanvasX) <= 1
                    /\ Abs(after.screenY - CanvasY) <= 1]_vars

\* C6: onSelectSatellite is invoked only by the click handler, at most once per
\* click, and not at all by a click that hits nothing.
C6_SelectOnlyOncePerClick ==
    [][/\ Len(selectCalls') <= 1
       /\ selectCalls' # <<>> => Click
       /\ (Click /\ \A i \in 1..Len(satellites) :
                       ~(InFilter(satellites[i])
                         /\ AnnotationCovers(satellites[i], CanvasX, CanvasY, ClickSlack)))
             => selectCalls' = <<>>]_vars

\* C6 case: a click hit a record that lies under the pointer with another one
C6_Witness ==
    /\ Len(selectCalls) = 1
    /\ Cardinality({i \in 1..Len(satellites) :
                       AnnotationCovers(satellites[i], CanvasX, CanvasY, ClickSlack)}) > 1

\* C7: when a click lies within radius + slack of several annotated records, the
\* record passed to onSelectSatellite is the closest one.
C7_ClickSelectsClosest ==
    [][(Click /\ selectCalls' # <<>>) =>
          \A i, j \in 1..Len(satellites) :
             (/\ satellites[i].id = selectCalls'[1]
              /\ InFilter(satellites[j])
              /\ AnnotationCovers(satellites[i], CanvasX, CanvasY, ClickSlack)
              /\ AnnotationCovers(satellites[j], CanvasX, CanvasY, ClickSlack))
             => Dist2(satellites[i].screenPosition.x, satellites[i].screenPosition.y,
                      CanvasX, CanvasY)
                <= Dist2(satellites[j].screenPosition.x, satellites[j].screenPosition.y,
                         CanvasX, CanvasY)]_vars

\* C8: a drag gesture (pointer-down on the canvas, pointer-moves while Dragging,
\* pointer-up on the canvas) does not invoke onSelectSatellite.
C8_DragDoesNotSelect ==
    [][press = "dragClick" => selectCalls' = <<>>]_vars

HoverCandidates ==
    {i \in 1..Len(satellites) :
        /\ IsDrawn(satellites[i])
        /\ AnnotationCovers(satellites'[i], lastMousePos.x, lastMousePos.y, HoverSlack)}

C11_FilterRestrictsCanvas ==
    [][filteredSatelliteId # Null =>
          /\ FrameStep =>
                /\ \A i \in 1..Len(satellites) :
                      satellites'[i].screenPosition # satellites[i].screenPosition
                         => satellites[i].id = filteredSatelliteId
                /\ hoveredSatellite' \in {Null, filteredSatelliteId}
          /\ \A k \in 1..Len(selectCalls') : selectCalls'[k] = filteredSatelliteId]_vars

\* C11 case: the filtered record is hovered and has just been selected by a click
\* at a point that the annotation of another record covers as well
C11_Witness ==
    /\ filteredSatelliteId # Null
    /\ hoveredSatellite = filteredSatelliteId
    /\ selectCalls = <<filteredSatelliteId>>
    /\ \E i \in 1..Len(satellites) :
          /\ satellites[i].id # filteredSatelliteId
          /\ AnnotationCovers(satellites[i], CanvasX, CanvasY, ClickSlack)

\* C12: whenever the OrbitalElements list is empty (initially, or after a
\* non-empty list was replaced by an empty one) the draw set of a frame is empty,
\* no frame makes a record hovered and no click invokes onSelectSatellite.
C12_EmptyListNothingOnCanvas ==
    [][Len(orbitalElements) = 0 =>
          /\ FrameStep =>
                /\ \A i \in 1..Len(satellites) : ~IsDrawn(satellites[i])
                /\ hoveredSatellite' = Null
          /\ selectCalls' = <<>>]_vars

AnyTick == \E g \in TickGaps : Tick(g)

\* the snapshot has one record per element, in the same order, with the same
\* id, name, type, orbit zone and riskFactor
SameIdentity(snapshot, elements) ==
    /\ Len(snapshot) = Len(elements)
    /\ \A i \in 1..Len(elements) :
          /\ snapshot[i].id = elements[i].id
          /\ snapshot[i].name = elements[i].name
          /\ snapshot[i].type = elements[i].type
          /\ snapshot[i].orbitType = elements[i].orbitType
          /\ snapshot[i].riskFactor = elements[i].riskFactor

IdsOf(list) == {list[i].id : i \in 1..Len(list)}

\* C13: every snapshot a position tick produces has exactly one record per element
\* of the current list, in order and with the same identity fields; the snapshot
\* produced when a (non-empty) replacement list arrives has exactly the ids of the
\* replacement, and no later step breaks the correspondence.
C13_SnapshotFollowsElements ==
    [][/\ AnyTick => SameIdentity(satellites', orbitalElements)
       /\ \A l \in ElementLists :
             (NewElements(l) /\ Len(l) > 0) =>
                /\ SameIdentity(satellites', l)
                /\ IdsOf(satellites') = IdsOf(l)
                /\ (IdsOf(orbitalElements) \ IdsOf(l)) \cap IdsOf(satellites') = {}
       /\ Len(orbitalElements') > 0 => SameIdentity(satellites', orbitalElements')]_vars

\* C13 case: a tick has produced the snapshot of a replacement list while the
\* hovered id is still one that only the replaced list had
C13_Witness ==
    /\ now > 0
    /\ Len(orbitalElements) > 0
    /\ SameIdentity(satellites, orbitalElements)
    /\ hoveredSatellite # Null
    /\ hoveredSatellite \notin IdsOf(satellites)

AnyUnmount == \E o \in CleanupOrders : Unmount(o)

\* C14: after the view is torn down no frame callback and no position tick runs
\* again, whichever of the two loops was armed and in whichever order the two
\* cleanups ran: both timers are stopped and stay stopped.
C14_TeardownStopsBothLoops ==
    [][/\ AnyUnmount => (animationRef' = "cancelled" /\ interval' = "cleared")
       /\ ~mounted => ~(FrameStep \/ AnyTick)
       /\ ~mounted => (~mounted' /\ animationRef' = "cancelled"
                          /\ interval' = "cleared")]_vars

\* C14 case: the view was torn down after frames and a tick had run, with the
\* position timer armed until then
C14_Witness ==
    /\ ~mounted
    /\ Len(orbitalElements) > 0
    /\ now > 0
    /\ hoveredSatellite # Null

AnyNewElements == \E l \in ElementLists : NewElements(l)
AnyNewProps == \E p \in PropChoices : NewProps(p)

\* C15: rotation, zoom and the Idle/Dragging state are changed only by the pointer
\* and wheel handlers: a frame, a position tick, a replacement of the element list
\* and a change of the selected / highlighted / filtered props leave them unchanged.
C15_CameraOnlyByPointerAndWheel ==
    [][<<rotation, zoom, isDragging>>' # <<rotation, zoom, isDragging>>
          => /\ MouseDown \/ AnyMouseMove \/ MouseUp \/ AnyWheel
             /\ ~(FrameStep \/ AnyTick \/ AnyNewElements \/ AnyNewProps)]_vars

\* C15 case: a drag is in progress with the camera rotated and zoomed, after a
\* tick, a change of props and a replacement of the list whose snapshot no longer
\* has the hovered record
C15_Witness ==
    /\ isDragging
    /\ rotation.x # 0
    /\ zoom # ZoomInitial
    /\ now > 0
    /\ filteredSatelliteId # Null
    /\ hoveredSatellite # Null
    /\ hoveredSatellite \notin IdsOf(satellites)

\* the record without the annotation a frame stashes on it
Unannotated(sat) == [sat EXCEPT !.screenPosition = NoScreen]

\* every record of the snapshot is what one run of updatePositions over the
\* elements at time offset t produces
FromOneTick(snapshot, elements, t) ==
    /\ Len(snapshot) = Len(elements)
    /\ \A i \in 1..Len(snapshot) :
          Unannotated(snapshot[i]) = SatelliteRecord(elements[i], t)

\* C16: every frame reads one complete snapshot: the records it projects were all
\* produced by the same position tick, and the frame changes nothing of a record
\* but its annotation (no x, y, z, altitude, id or riskFactor, so no propagator
\* call); only a tick or a new list produces positions.
C16_FrameReadsOneSnapshot ==
    [][(\/ Len(satellites') # Len(satellites)
        \/ \E i \in 1..Len(satellites) :
              Unannotated(satellites'[i]) # Unannotated(satellites[i]))
          => /\ ~FrameStep
             /\ AnyTick \/ AnyNewElements
             /\ FromOneTick(satellites', orbitalElements', now')]_vars

\* C16 case: a frame has annotated a snapshot that a tick propagated away from the
\* positions the elements arrived with
C16_Witness ==
    /\ now > 0
    /\ Len(orbitalElements) > 0
    /\ FromOneTick(satellites, orbitalElements, now)
    /\ \E i \in 1..Len(satellites) :
          /\ satellites[i].screenPosition.present
          /\ satellites[i].x # SatelliteRecord(orbitalElements[i], 0).x

\* C17: a click never matches a record through an annotation written by a frame
\* earlier than the most recent one: the record a click selects was drawn by the
\* most recent frame (so a record that frame depth-culled cannot be selected at
\* its old screen position).
C17_ClickReadsLatestFrameOnly ==
    [][(Click /\ selectCalls' # <<>>) => selectCalls'[1] \in lastDrawn]_vars

\* the filter names an id that no record of the snapshot has
StaleFilter ==
    /\ filteredSatelliteId # Null
    /\ filteredSatelliteId \notin IdsOf(satellites)

\* C18: with a stale filter a frame draws nothing and hovers nothing, a click
\* selects nothing, and the status readout still shows the count "1 (filtered)".
C18_StaleFilterShowsNothing ==
    [][StaleFilter =>
          /\ StatusCount = "1 (filtered)"
          /\ FrameStep =>
                /\ lastDrawn' = {}
                /\ hoveredSatellite' = Null
                /\ satellites' = satellites
          /\ selectCalls' = <<>>]_vars

\* C18 case: the filter is stale for a non-empty snapshot whose records still
\* carry annotations under the pointer; a frame has drawn nothing and a press and
\* release without a move (a click) has gone by
C18_Witness ==
    /\ StaleFilter
    /\ \E i \in 1..Len(satellites) :
          AnnotationCovers(satellites[i], CanvasX, CanvasY, ClickSlack)
    /\ lastDrawn = {}
    /\ hoveredSatellite = Null
    /\ ~isDragging
    /\ press = "none"
    /\ lastMousePos = pointer

StaleSelected ==
    selectedSatellite # Null /\ selectedSatellite \notin IdsOf(satellites)

StaleHighlighted ==
    highlightedSatellite # Null /\ highlightedSatellite \notin IdsOf(satellites)

\* C19: when the selected (highlighted) id is the id of no record of the snapshot,
\* every record a frame draws gets the encoding it would get with no selection (no
\* highlight), the readout falls back to the bare id, and the frame request and
\* the position timer stay armed.
C19_StaleSelectionIsNoMatch ==
    /\ StaleSelected =>
          \A i \in 1..Len(satellites) :
             IsDrawn(satellites[i]) =>
                Encoding(satellites[i]) =
                   EncodingWith(satellites[i], Null, highlightedSatellite,
                                filteredSatelliteId)
    /\ StaleHighlighted =>
          /\ \A i \in 1..Len(satellites) :
                IsDrawn(satellites[i]) =>
                   Encoding(satellites[i]) =
                      EncodingWith(satellites[i], selectedSatellite, Null,
                                   filteredSatelliteId)
          /\ StatusHighlighted = highlightedSatellite
    /\ (StaleSelected \/ StaleHighlighted) =>
          /\ animationRef = "pending"
          /\ Len(orbitalElements) > 0 => interval = "armed"

\* C19 case: selection and highlight both name a record that the ticked snapshot
\* no longer has, and a frame has drawn the records of that snapshot
C19_Witness ==
    /\ StaleSelected
    /\ StaleHighlighted
    /\ now > 0
    /\ Len(satellites) > 0
    /\ lastDrawn = IdsOf(satellites)
    /\ \E i \in 1..Len(satellites) : satellites[i].screenPosition.present

\* what the failure policy promises for an element: its currentPosition when it
\* has one, else { 0, 0, 0, altitude 0 }
Fallback(el) ==
    IF el.currentPosition.present
    THEN WithAltitude(el.currentPosition.x, el.currentPosition.y, el.currentPosition.z)
    ELSE [x |-> 0, y |-> 0, z |-> 0, altitude |-> 0]

\* numerically degenerate element records
Degenerate(el) == el.semiMajorAxis = NaN \/ el.eccentricity >= Milli

\* C20: propagation never fails into the caller: every position it returns is a
\* finite number, and for a degenerate record (eccentricity >= 1, a missing numeric
\* field) it is the fallback: currentPosition when present, else zeros.
C20_PropagationDegradesToFallback ==
    Len(orbitalElements) > 0 =>
       \A i \in 1..Len(satellites) :
          /\ satellites[i].x # NaN
          /\ satellites[i].y # NaN
          /\ satellites[i].z # NaN
          /\ satellites[i].altitude # NaN
          /\ Degenerate(orbitalElements[i]) =>
                /\ satellites[i].x = Fallback(orbitalElements[i]).x
                /\ satellites[i].y = Fallback(orbitalElements[i]).y
                /\ satellites[i].z = Fallback(orbitalElements[i]).z
                /\ satellites[i].altitude = Fallback(orbitalElements[i]).altitude

\* x, y, z of a position or of a snapshot record
Coordinates(r) == <<r.x, r.y, r.z>>

\* C21: in a snapshot computed less than 10 seconds after mount a record whose
\* element has a currentPosition sits exactly there; from 10 seconds on (and for
\* an element without currentPosition) the record comes from the Kepler path,
\* whenever the list arrived.
C21_FastPathFirstTenSeconds ==
    Len(orbitalElements) > 0 =>
       \A i \in 1..Len(satellites) :
          IF now < FastPathSeconds /\ orbitalElements[i].currentPosition.present
          THEN Coordinates(satellites[i])
                  = Coordinates(orbitalElements[i].currentPosition)
          ELSE /\ Coordinates(satellites[i])
                     = Coordinates(KeplerPosition(orbitalElements[i], now))
               /\ satellites[i].altitude
                     = KeplerPosition(orbitalElements[i], now).altitude

\* C21 case: ten seconds after mount a record whose element carries a
\* currentPosition has been propagated away from it
C21_Witness ==
    /\ now >= FastPathSeconds
    /\ Len(orbitalElements) > 0
    /\ \E i \in 1..Len(satellites) :
          /\ orbitalElements[i].currentPosition.present
          /\ satellites[i].x # NaN
          /\ Coordinates(satellites[i])
                # Coordinates(orbitalElements[i].currentPosition)

\* C22: the fill of a drawn record is the accent colour when it is highlighted or
\* filtered; otherwise a neutral gray (none of the three other colours) when its
\* type is debris; otherwise the danger colour when riskFactor > 60 and the safe
\* colour when riskFactor <= 60.
C22_FillRuleTable ==
    \A i \in 1..Len(satellites) :
       IsDrawn(satellites[i]) =>
          LET sat  == satellites[i]
              fill == Encoding(sat).fillStyle
          IN  IF isAccented(sat, highlightedSatellite, filteredSatelliteId)
              THEN fill = "#3b82f6"
              ELSE IF sat.type = "debris"
              THEN fill \notin {"#3b82f6", "#ef4444", "#10b981"}
              ELSE IF sat.riskFactor > HighRisk
              THEN fill = "#ef4444"
              ELSE fill = "#10b981"

\* the position and altitude a call of calculatePosition returns
Returned(r) == <<r.x, r.y, r.z, r.altitude>>

Magnitude(r) == Sqrt(r.x * r.x + r.y * r.y + r.z * r.z)

\* the rounding the thousandths arithmetic leaves on a length a: 0.2 %
Rounding(a) == a \div 500

\* C24: for a circular orbit (eccentricity 0) the position the propagator returns
\* has magnitude semiMajorAxis (within rounding) at every time offset, also below
\* ten seconds when the element carries a cached currentPosition.
C24_CircularKeepsRadius ==
    Len(orbitalElements) > 0 =>
       \A i \in 1..Len(satellites) :
          (orbitalElements[i].eccentricity = 0 /\ orbitalElements[i].semiMajorAxis # NaN)
             => Abs(Magnitude(satellites[i]) - orbitalElements[i].semiMajorAxis)
                   <= Rounding(orbitalElements[i].semiMajorAxis)

\* C25: for valid elements the altitude stored in the snapshot is
\* |(x, y, z)| - 6371 computed from the stored x, y, z, whether the record came
\* from the fast path or from the full path.
C25_AltitudeIsDerived ==
    Len(orbitalElements) > 0 =>
       \A i \in 1..Len(satellites) :
          ~KeplerIsNaN(orbitalElements[i]) =>
             satellites[i].altitude = Magnitude(satellites[i]) - EarthRadiusKm

\* C25 case: the full path has produced a record off the equatorial plane whose
\* altitude differs from semiMajorAxis - 6371
C25_Witness ==
    /\ now >= FastPathSeconds
    /\ Len(orbitalElements) > 0
    /\ \E i \in 1..Len(satellites) :
          /\ ~KeplerIsNaN(orbitalElements[i])
          /\ satellites[i].z # 0
          /\ satellites[i].altitude # orbitalElements[i].semiMajorAxis - EarthRadiusKm
          /\ satellites[i].altitude = Magnitude(satellites[i]) - EarthRadiusKm

\* C26: after the 8 passes of the Newton-Raphson loop started from E0 = M', the
\* eccentric anomaly satisfies |E - e sin(E) - M'| < 1e-6, for every eccentricity
\* from 0 to 0.9 and every mean anomaly (here 0 .. 4 pi).
C26_NewtonConverges ==
    kepler.i = NewtonIterations =>
       Abs(KeplerResidual(kepler.eccentricAnomaly, kepler.eccentricity,
                          kepler.currentMeanAnomaly)) <= Fine \div 1000000

\* C26 case: at eccentricity 0.9 the loop has finished from a start whose
\* residual was above 0.5
C26_Witness ==
    /\ kepler.i = NewtonIterations
    /\ kepler.eccentricity = (9 * Fine) \div 10
    /\ Abs(KeplerResidual(kepler.currentMeanAnomaly, kepler.eccentricity,
                          kepler.currentMeanAnomaly)) > Fine \div 2
    /\ kepler.eccentricAnomaly # kepler.currentMeanAnomaly

\* C27: the annotation a frame stores for a record holds the screen position and
\* the radius at which the frame drew that record, for selected, highlighted,
\* filtered and plain records alike (so the hit radius of click and hover is the
\* drawn radius plus slack).
C27_AnnotationIsDrawnRadius ==
    [][FrameStep =>
          \A i \in 1..Len(satellites) :
             IsDrawn(satellites[i]) =>
                /\ satellites'[i].screenPosition.present
                /\ satellites'[i].screenPosition.x = Project(satellites[i]).screenX
                /\ satellites'[i].screenPosition.y = Project(satellites[i]).screenY
                /\ satellites'[i].screenPosition.size = Encoding(satellites[i]).radius]_vars

\* C29: at every moment of a mounted view at most one frame request and at most
\* one position timer are live, and none of them was armed by a superseded
\* closure: every re-subscription (a new snapshot, a new element list, new
\* selected / highlighted / filtered props) cancels before it arms, so the one
\* live timer is the one of the current, non-empty element list.
C29_OneRequestOneTimer ==
    mounted =>
       /\ outstanding.frames <= 1
       /\ outstanding.timers <= 1
       /\ outstanding.staleFrames = 0
       /\ outstanding.staleTimers = 0
       /\ outstanding.frames = 1 <=> animationRef = "pending"
       /\ outstanding.timers = 1 <=> interval = "armed"
       /\ outstanding.timers = 1 => Len(orbitalElements) > 0

\* C29 case: both loops are live after a tick replaced the snapshot, the props
\* changed and a frame of the re-subscribed effect drew
C29_Witness ==
    /\ mounted
    /\ now > 0
    /\ props # <<Null, Null, Null>>
    /\ lastDrawn # {}
    /\ outstanding.frames = 1
    /\ outstanding.timers = 1

\* a record of the snapshot that a frame would draw has not been drawn yet
AwaitsFrame ==
    \E i \in 1..Len(satellites) :
       IsDrawn(satellites[i]) /\ ~satellites[i].screenPosition.present

\* C28: while the view is mounted the step of the gridline loops is positive, so
\* draw runs to its end; every frame leaves exactly one next frame requested; and
\* with the browser calling pending frame callbacks, frames keep occurring: every
\* record put on the snapshot by a tick, a new element list or made drawable by a
\* prop or zoom change is drawn by a later frame (or replaced before that).
C28_FramesKeepOccurring ==
    /\ [](mounted => GridlinesEnd /\ outstanding.frames = 1)
    /\ [][FrameStep => outstanding'.frames = 1 /\ animationRef' = "pending"]_vars
    /\ (AwaitsFrame ~> ~AwaitsFrame)

\* C28 case: at the smallest zoom, after a tick and a change of props, a frame
\* has drawn every record of the snapshot
C28_Witness ==
    /\ zoom = ZoomMin
    /\ now > 0
    /\ props # <<Null, Null, Null>>
    /\ lastDrawn # {}
    /\ ~AwaitsFrame
    /\ \E i \in 1..Len(satellites) : satellites[i].screenPosition.present

\* C30: the position the hover test of a frame reads from lastMousePos is the
\* canvas-relative position of the most recent pointer event, never the client
\* coordinates a pointer-down left there; and while lastMousePos still holds its
\* initial value (no pointer event yet) the frame reports nothing as hovered.
C30_HoverReadsCanvasPosition ==
    [][FrameStep =>
          IF lastMousePos = Point(0, 0)
          THEN hoveredSatellite' = Null
          ELSE lastMousePos = Point(CanvasX, CanvasY)]_vars

====
